---- MODULE Spec2Model ----
(***************************************************************************)
(* Model of the schema subsystem of notion-chakra-mcp:                     *)
(*   src/src/schemas/schema_manager.py  (SchemaManager: the Schema Store   *)
(*                                       and the Schema Extractor)         *)
(*   src/src/schema_tools.py            (fetch_schemas, get_schema, ...)   *)
(*   src/src/setup_tools.py             (record_db_index,                  *)
(*                                       record_db_schemas, sync_databases)*)
(*   src/src/notion_tools.py            (list_databases, get_database)     *)
(*   src/src/models/notion.py           (Database validation)              *)
(*                                                                         *)
(* Python dicts are functions over strings, Python lists are sequences,    *)
(* None / a raised exception / a returned value are tagged records.        *)
(***************************************************************************)
EXTENDS Integers, Sequences, FiniteSets, TLC

VARIABLES
    dirs,        \* namespaces whose partition directory exists under data/schemas
    files,       \* files[ns][fname]: content of data/schemas/<ns>/<fname>
    workspace,   \* the remote service: sequence of raw database objects
    memory,      \* external memory service: key -> data written by update_memory
    memories,    \* external memory service: texts written by save_memory
    saved,       \* history: saved[ns][k] = record of the last save_schema(k, .) that returned
    last,        \* the most recent completed call: its arguments, effects and result
    tasks,       \* tasks[t]: a coroutine of the event loop that saves a schema
    extracted,   \* history: what the first extraction of the run returned
    pages,       \* the remote service: pages[id], the page of that id
    server       \* the server's lifespan: its phase, tracked tasks and client

vars == <<dirs, files, workspace, memory, memories, saved, last, tasks, extracted,
          pages, server>>

----------------------------------------------------------------------------
(* Bounds *)

MaxDbs == 2            \* longest discovery list of a sync pass
MaxListed == 1         \* longest discovery list seen by the schema tools

----------------------------------------------------------------------------
(* Python values *)

EmptyDict == [x \in {} |-> x]

None == [kind |-> "none"]
Value(v) == [kind |-> "value", v |-> v]
Raised(e) == [kind |-> "raised", exc |-> e]

IsValue(r) == r.kind = "value"
IsRaised(r) == r.kind = "raised"

Namespaces == {"default", "work"}
Names == {"Tasks", "Projects", ""}
\* the schema names the host passes to save_schema directly
HostNames == {"Tasks", ""}

----------------------------------------------------------------------------
(* The remote workspace: raw database objects as the remote API returns    *)
(* them.  A title is a sequence of rich-text spans; properties maps a      *)
(* field name to its descriptor.                                           *)

Span(text) == [type |-> "text", plain_text |-> text]

PropTitle == [id |-> "title", name |-> "Name", type |-> "title", title |-> EmptyDict]
PropSelect == [id |-> "s1", name |-> "Status", type |-> "select",
               select |-> [options |-> <<"Todo", "Done">>]]
PropBare == [id |-> "c1", name |-> "Done", type |-> "checkbox"]

DbTasks == [object |-> "database", id |-> "A1", created_time |-> "2024-01-01",
            title |-> <<Span("Tasks")>>,
            properties |-> [Name |-> PropTitle, Status |-> PropSelect]]
DbProjects == [object |-> "database", id |-> "B1", created_time |-> "2024-01-02",
               title |-> <<Span("Projects"), Span(" (old)")>>,
               properties |-> [Name |-> PropTitle, Done |-> PropBare]]
DbTasksDup == [object |-> "database", id |-> "C1", created_time |-> "2024-01-03",
               title |-> <<Span("Tasks")>>,
               properties |-> [Name |-> PropTitle]]
DbUntitled == [object |-> "database", id |-> "D1", created_time |-> "2024-01-04",
               title |-> <<>>,
               properties |-> [Name |-> PropTitle]]
\* a database object that does not validate into the Database shape:
\* the required created_time is missing
DbBad == [object |-> "database", id |-> "E1",
          title |-> <<Span("Projects")>>,
          properties |-> [Name |-> PropTitle]]

Catalogue == {DbTasks, DbProjects, DbTasksDup, DbUntitled, DbBad}

NoRepeat(s) ==
    \A i, j \in 1..Len(s) : i # j => s[i].id # s[j].id

\* the databases the schema tools are run against
Listed == {DbTasks, DbProjects, DbUntitled}

Workspaces(dbs, max) ==
    { s \in UNION { [1..n -> dbs] : n \in 0..max } : NoRepeat(s) }

----------------------------------------------------------------------------
(* Schema Extractor: SchemaManager.extract_database_schema                 *)

\* database["title"][0]["plain_text"] on a sequence of spans
first_plain_text(title) ==
    IF Len(title) = 0 THEN Raised("IndexError") ELSE Value(title[1].plain_text)

\* slip: the whole descriptor is taken as the configuration
extract_property_whole(prop_config) ==
    [type |-> prop_config.type, config |-> prop_config]

\* slip: the configuration is wrapped under its type tag
extract_property_keyed(prop_config) ==
    [type |-> prop_config.type,
     config |-> IF prop_config.type \in DOMAIN prop_config
                THEN (prop_config.type :> prop_config[prop_config.type])
                ELSE EmptyDict]

extract_property(prop_config) ==
    [type |-> prop_config.type,
     config |-> IF prop_config.type \in DOMAIN prop_config
                THEN prop_config[prop_config.type]
                ELSE EmptyDict]

extract_database_schema(database) ==
    IF "id" \notin DOMAIN database THEN Raised("KeyError")
    ELSE LET hasTitle == "title" \in DOMAIN database /\ Len(database.title) > 0
             props == IF "properties" \in DOMAIN database
                      THEN database.properties ELSE EmptyDict
         IN Value([id |-> database.id,
                   title |-> IF hasTitle THEN first_plain_text(database.title).v ELSE "",
                   properties |-> [p \in DOMAIN props |-> extract_property(props[p])]])

\* the Schema Records the host saves directly
Records == { extract_database_schema(d).v : d \in {DbTasks, DbProjects} }

----------------------------------------------------------------------------
(* Schema Store: SchemaManager over the directory data/schemas             *)

\* json.dump(schema, f, indent=2): the text of a complete JSON object
JsonDump(schema) ==
    [exists |-> TRUE, open |-> TRUE, body |-> schema, close |-> TRUE]

\* json.load(f): fails on a text that is not one complete JSON value
JsonLoad(text) ==
    IF text.open /\ text.close THEN Value(text.body) ELSE Raised("JSONDecodeError")

NoFile == [exists |-> FALSE, open |-> FALSE, body |-> EmptyDict, close |-> FALSE]

FileName(schema_type) == schema_type \o ".json"
FileNames == { FileName(k) : k \in Names }

\* Path.stem of a file of the partition: the name without its last suffix;
\* a name that is only ".json" is a dot-file without suffix
Stem(fname) ==
    IF fname = ".json" THEN ".json" ELSE CHOOSE k \in Names : FileName(k) = fname

\* SchemaManager.__init__: the partition directory is created
SchemaManager(ds, config_name) == ds \cup {config_name}

\* slip: every configuration shares one partition
get_schema_path_shared(config_name, schema_type) ==
    [dir |-> "default", file |-> FileName(schema_type)]

get_schema_path(config_name, schema_type) ==
    [dir |-> config_name, file |-> FileName(schema_type)]

\* slip: an existing file is kept instead of overwritten
save_schema_keep(fs, config_name, schema_type, schema) ==
    LET path == get_schema_path(config_name, schema_type)
    IN [ret |-> None,
        files |-> IF fs[path.dir][path.file].exists THEN fs
                  ELSE [fs EXCEPT ![path.dir][path.file] = JsonDump(schema)]]

save_schema(fs, config_name, schema_type, schema) ==
    LET path == get_schema_path(config_name, schema_type)
    IN [ret |-> None,
        files |-> [fs EXCEPT ![path.dir][path.file] = JsonDump(schema)]]

\* slip: the decoding error is not caught
load_schema_propagate(fs, config_name, schema_type) ==
    LET path == get_schema_path(config_name, schema_type)
        text == fs[path.dir][path.file]
    IN IF ~text.exists THEN None ELSE JsonLoad(text)

load_schema(fs, config_name, schema_type) ==
    LET path == get_schema_path(config_name, schema_type)
        text == fs[path.dir][path.file]
    IN IF ~text.exists THEN None
       ELSE IF IsRaised(JsonLoad(text)) THEN None
       ELSE JsonLoad(text)

list_schemas(fs, config_name) ==
    { Stem(f) : f \in { g \in FileNames : fs[config_name][g].exists } }

list_configs(ds) == ds

----------------------------------------------------------------------------
(* Remote gateway tools: notion_tools.list_databases / get_database        *)

\* NotionClientError(...).to_dict()
ErrorDict(message) ==
    [success |-> FALSE, error |-> TRUE, message |-> message, status |-> 400]

RECURSIVE all_titled(_, _)
all_titled(databases, i) ==
    IF i > Len(databases) THEN TRUE
    ELSE /\ ~IsRaised(first_plain_text(databases[i].title))
         /\ all_titled(databases, i + 1)

\* up: the remote search call succeeds
list_databases(ws, up) ==
    IF ~up THEN [kind |-> "errdict", d |-> ErrorDict("Failed to list databases")]
    ELSE IF Len(ws) = 0 THEN [kind |-> "list", items |-> <<>>]
    ELSE IF ~all_titled(ws, 1)
         THEN [kind |-> "errdict", d |-> ErrorDict("Failed to list databases")]
    ELSE [kind |-> "list",
          items |-> [i \in 1..Len(ws) |->
                        [id |-> ws[i].id, title |-> first_plain_text(ws[i].title).v]]]

\* up: the remote retrieve call succeeds
get_database(ws, database_id, up) ==
    IF up /\ \E i \in 1..Len(ws) : ws[i].id = database_id
    THEN [kind |-> "db", d |-> ws[CHOOSE i \in 1..Len(ws) : ws[i].id = database_id]]
    ELSE [kind |-> "errdict", d |-> ErrorDict("Failed to get database")]

----------------------------------------------------------------------------
(* Schema tools: schema_tools.fetch_schemas / get_schema                   *)

\* db["title"][0]["plain_text"] on an element of list_databases' result,
\* whose title is already a plain string: indexing a character fails
listed_plain_text(title) ==
    IF title = "" THEN Raised("IndexError") ELSE Raised("TypeError")

\* db_names = [db["title"][0]["plain_text"] for db in databases]
db_names(listed) ==
    IF listed.kind = "errdict" THEN Raised("TypeError")   \* iterates the dict's keys
    ELSE IF Len(listed.items) = 0 THEN Value(<<>>)
    ELSE listed_plain_text(listed.items[1].title)

\* slip: a key already present keeps its value
DictSet_keep(d, k, v) == [x \in DOMAIN d \cup {k} |-> IF x \in DOMAIN d THEN d[x] ELSE v]

DictSet(d, k, v) == [x \in DOMAIN d \cup {k} |-> IF x = k THEN v ELSE d[x]]

\* for db in databases: retrieve, extract, save, collect
RECURSIVE fetch_loop(_, _, _, _, _, _, _, _)
fetch_loop(items, i, fs, config_name, schemas, gets, ws, getUp) ==
    IF i > Len(items)
    THEN [ret |-> Value(schemas), files |-> fs, get_calls |-> gets, saves |-> i - 1]
    ELSE LET db_details == get_database(ws, items[i].id, getUp)
             schema == extract_database_schema(db_details.d)
         IN IF IsRaised(schema)
            THEN [ret |-> schema, files |-> fs, get_calls |-> gets + 1, saves |-> i - 1]
            ELSE fetch_loop(items, i + 1,
                            save_schema(fs, config_name, schema.v.title, schema.v).files,
                            config_name,
                            DictSet(schemas, schema.v.title, schema.v),
                            gets + 1, ws, getUp)

\* slip: the partition is emptied before the pass
fetch_schemas_reset(fs, config_name, ws, listUp, getUp) ==
    LET listed == list_databases(ws, listUp)
        names == db_names(listed)
        cleared == [fs EXCEPT ![config_name] = [f \in FileNames |-> NoFile]]
    IN IF IsRaised(names)
       THEN [ret |-> names, files |-> cleared, list_calls |-> 1, get_calls |-> 0, saves |-> 0]
       ELSE LET r == fetch_loop(listed.items, 1, cleared, config_name, EmptyDict, 0, ws, getUp)
            IN [ret |-> r.ret, files |-> r.files, list_calls |-> 1,
                get_calls |-> r.get_calls, saves |-> r.saves]

fetch_schemas(fs, config_name, ws, listUp, getUp) ==
    LET listed == list_databases(ws, listUp)
        names == db_names(listed)
    IN IF IsRaised(names)
       THEN [ret |-> names, files |-> fs, list_calls |-> 1, get_calls |-> 0, saves |-> 0]
       ELSE LET r == fetch_loop(listed.items, 1, fs, config_name, EmptyDict, 0, ws, getUp)
            IN [ret |-> r.ret, files |-> r.files, list_calls |-> 1,
                get_calls |-> r.get_calls, saves |-> r.saves]

\* slip: the cached record is never used
Truthy_never(loaded) == FALSE

\* Python truth value of what load_schema returned
Truthy(loaded) == IsValue(loaded) /\ DOMAIN loaded.v # {}

DictGet(d, k) == IF k \in DOMAIN d THEN Value(d[k]) ELSE None

get_schema(fs, database_name, config_name, ws, listUp, getUp) ==
    LET schema == load_schema(fs, config_name, database_name)
    IN IF Truthy(schema)
       THEN [ret |-> schema, files |-> fs, list_calls |-> 0, get_calls |-> 0, saves |-> 0]
       ELSE LET f == fetch_schemas(fs, config_name, ws, listUp, getUp)
            IN [ret |-> IF IsRaised(f.ret) THEN f.ret ELSE DictGet(f.ret.v, database_name),
                files |-> f.files, list_calls |-> f.list_calls,
                get_calls |-> f.get_calls, saves |-> f.saves]

----------------------------------------------------------------------------
(* State machine of the Schema Store and the schema tools                  *)

\* the coroutines that may save concurrently
MaxTasks == 2

Tasks == 1..MaxTasks

NoTasks == [t \in Tasks |-> [pc |-> "idle"]]

\* identifiers of the pages the remote service may hold
PageIds == {"P1"}

NoPage == [exists |-> FALSE]

NoPages == [p \in PageIds |-> NoPage]

\* no lifespan context has been entered
NoServer == [phase |-> "off"]

NoSaved == [n \in Namespaces |-> [k \in Names |-> None]]

Init ==
    /\ dirs = {}
    /\ files = [n \in Namespaces |-> [f \in FileNames |-> NoFile]]
    /\ workspace \in Workspaces(Listed, MaxListed)
    /\ memory = EmptyDict
    /\ memories = {}
    /\ saved = NoSaved
    /\ last = [op |-> "init"]
    /\ tasks = NoTasks
    /\ extracted = None
    /\ pages = NoPages
    /\ server = NoServer

\* the host saves a record: SchemaManager(config_name).save_schema(schema_type, schema)
SaveSchema ==
    \E config_name \in Namespaces, schema_type \in HostNames, schema \in Records :
        LET r == save_schema(files, config_name, schema_type, schema)
        IN /\ dirs' = SchemaManager(dirs, config_name)
           /\ files' = r.files
           /\ saved' = [saved EXCEPT ![config_name][schema_type] = Value(schema)]
           /\ last' = [op |-> "save_schema", ns |-> config_name, name |-> schema_type,
                        pre |-> saved[config_name][schema_type], ret |-> r.ret]
           /\ UNCHANGED <<workspace, memory, memories, tasks, extracted, pages, server>>

\* SchemaManager(config_name).load_schema(schema_type)
LoadSchema ==
    \E config_name \in Namespaces, schema_type \in Names :
        /\ dirs' = SchemaManager(dirs, config_name)
        /\ last' = [op |-> "load_schema", ns |-> config_name, name |-> schema_type,
                     ret |-> load_schema(files, config_name, schema_type)]
        /\ UNCHANGED <<files, workspace, memory, memories, saved, tasks, extracted, pages, server>>

\* schema_tools.list_schemas(ctx, config_name)
ListSchemas ==
    \E config_name \in Namespaces :
        /\ dirs' = SchemaManager(dirs, config_name)
        /\ last' = [op |-> "list_schemas", ns |-> config_name,
                     ret |-> list_schemas(files, config_name)]
        /\ UNCHANGED <<files, workspace, memory, memories, saved, tasks, extracted, pages, server>>

\* schema_tools.list_configs(ctx)
ListConfigs ==
    /\ last' = [op |-> "list_configs", ret |-> list_configs(dirs)]
    /\ UNCHANGED <<dirs, files, workspace, memory, memories, saved, tasks, extracted, pages, server>>

\* schema_tools.fetch_schemas(ctx, config_name)
FetchSchemas ==
    \E config_name \in Namespaces, listUp \in BOOLEAN, getUp \in BOOLEAN :
        LET r == fetch_schemas(files, config_name, workspace, listUp, getUp)
        IN /\ dirs' = SchemaManager(dirs, config_name)
           /\ files' = r.files
           /\ last' = [op |-> "fetch_schemas", ns |-> config_name, ret |-> r.ret,
                        list_up |-> listUp, get_up |-> getUp,
                        list_calls |-> r.list_calls, get_calls |-> r.get_calls,
                        saves |-> r.saves]
           /\ UNCHANGED <<workspace, memory, memories, saved, tasks, extracted, pages, server>>

\* schema_tools.get_schema(ctx, database_name, config_name)
GetSchema ==
    \E config_name \in Namespaces, database_name \in Names,
       listUp \in BOOLEAN, getUp \in BOOLEAN :
        LET r == get_schema(files, database_name, config_name, workspace, listUp, getUp)
        IN /\ dirs' = SchemaManager(dirs, config_name)
           /\ files' = r.files
           /\ last' = [op |-> "get_schema", ns |-> config_name, name |-> database_name,
                        pre |-> load_schema(files, config_name, database_name),
                        ret |-> r.ret, list_up |-> listUp, get_up |-> getUp,
                        list_calls |-> r.list_calls, get_calls |-> r.get_calls,
                        saves |-> r.saves]
           /\ UNCHANGED <<workspace, memory, memories, saved, tasks, extracted, pages, server>>

Next ==
    \/ SaveSchema
    \/ LoadSchema
    \/ ListSchemas
    \/ ListConfigs
    \/ FetchSchemas
    \/ GetSchema

Spec == Init /\ [][Next]_vars

----------------------------------------------------------------------------
(* Database model: models/notion.py                                        *)

RichTextOk(span) == "type" \in DOMAIN span

\* Database.model_validate accepts the raw object: the required fields of
\* NotionObject and Database are present and every title span is a RichText
Validates(db) ==
    /\ {"object", "id", "created_time", "title", "properties"} \subseteq DOMAIN db
    /\ \A i \in 1..Len(db.title) : RichTextOk(db.title[i])

DatabasePropertyFields ==
    {"number", "select", "multi_select", "status", "formula", "relation", "rollup"}

\* DatabaseProperty.model_validate(value): extra keys are ignored, absent
\* type-specific configurations default to None
DatabaseProperty(value) ==
    [k \in {"id", "name", "type"} \cup DatabasePropertyFields |->
        IF k \in {"id", "name", "type"} THEN Value(value[k])
        ELSE IF k \in DOMAIN value THEN Value(value[k]) ELSE None]

\* Database.model_post_init: a descriptor that validates as a
\* DatabaseProperty is replaced by it, any other value is kept
process_property(value) ==
    IF {"id", "name", "type"} \subseteq DOMAIN value
    THEN [model |-> TRUE, fields |-> DatabaseProperty(value)]
    ELSE [model |-> FALSE, fields |-> value]

\* Database.model_validate(db) for a raw object that validates
Database(db) ==
    [object |-> db.object, id |-> db.id, created_time |-> db.created_time,
     last_edited_time |-> None, url |-> None, public_url |-> None,
     title |-> db.title, description |-> <<>>, archived |-> FALSE,
     properties |-> [p \in DOMAIN db.properties |-> process_property(db.properties[p])]]

\* Database.model_dump()
model_dump(database) ==
    [object |-> database.object, id |-> database.id,
     created_time |-> database.created_time,
     last_edited_time |-> database.last_edited_time,
     url |-> database.url, public_url |-> database.public_url,
     title |-> database.title, description |-> database.description,
     archived |-> database.archived,
     properties |-> [p \in DOMAIN database.properties |-> database.properties[p].fields]]

\* Database.plain_text_name(): plain text of the first title span, "" for
\* an empty title
plain_text_name(database) ==
    IF Len(database.title) = 0 THEN "" ELSE database.title[1].plain_text

----------------------------------------------------------------------------
(* Setup tools: setup_tools.record_db_index / record_db_schemas /          *)
(* sync_databases, over the external memory service                        *)

IndexKeys == {"notion.database_index"}
SchemaPrefixes == {"notion.schema"}

\* a text handed to the memory service's save_memory tool
MemoryText(key, value) == [literal |-> FALSE, key |-> key, value |-> Value(value)]
LiteralText(word) == [literal |-> TRUE, key |-> word, value |-> None]

\* list_databases(ctx, include_properties=True): the discovery call of a
\* sync pass, returning the full database objects or failing with the
\* gateway's typed error.  notion_tools.list_databases takes no
\* include_properties parameter, so this variant follows the gateway
\* contract of the specification (4.4 step 1, 4.5).
list_databases_full(ws, up) ==
    IF ~up THEN Raised("NotionClientError") ELSE Value(ws)

\* [Database.model_validate(db) for db in data]
RECURSIVE validate_all(_, _)
validate_all(data, i) ==
    IF i > Len(data) THEN Value(<<>>)
    ELSE IF ~Validates(data[i]) THEN Raised("ValidationError")
    ELSE LET rest == validate_all(data, i + 1)
         IN IF IsRaised(rest) THEN rest
            ELSE Value(<<Database(data[i])>> \o rest.v)

\* index = {}; for db in db_list: index[db.plain_text_name()] = db.id
RECURSIVE build_index(_, _, _)
build_index(db_list, i, index) ==
    IF i > Len(db_list) THEN index
    ELSE build_index(db_list, i + 1,
                     DictSet(index, plain_text_name(db_list[i]), db_list[i].id))

\* saveUp: the memory service accepts the save_memory call
record_db_index(texts, index_key, db_list, saveUp) ==
    LET index == build_index(db_list, 1, EmptyDict)
        memory_text == MemoryText(index_key, index)     \* built, then only logged
    IN IF ~saveUp THEN [ret |-> Raised("MemoryError"), memories |-> texts]
       ELSE [ret |-> Value(index), memories |-> texts \cup {LiteralText("memory")}]

SchemaKey(schema_prefix, id) == schema_prefix \o "." \o id

ErrorMsg(id) == [failed |-> id]

\* memFail: the ids whose update_memory call the memory service rejects.
\* The try statement encloses the whole loop.
RECURSIVE record_loop(_, _, _, _, _, _)
record_loop(mem, schema_prefix, databases, i, memFail, recorded) ==
    IF i > Len(databases)
    THEN [results |-> [success |-> TRUE, errors |-> <<>>],
          memory |-> mem, recorded |-> recorded, calls |-> i - 1]
    ELSE IF databases[i].id \in memFail
    THEN [results |-> [success |-> FALSE, errors |-> <<ErrorMsg(databases[i].id)>>],
          memory |-> mem, recorded |-> recorded, calls |-> i]
    ELSE record_loop(DictSet(mem, SchemaKey(schema_prefix, databases[i].id),
                             model_dump(databases[i])),
                     schema_prefix, databases, i + 1, memFail,
                     recorded \cup {databases[i].id})

record_db_schemas(mem, schema_prefix, databases, memFail) ==
    record_loop(mem, schema_prefix, databases, 1, memFail, {})

NotRun == [kind |-> "notrun"]

sync_databases(mem, texts, index_key, schema_prefix, ws, listUp, saveUp, memFail) ==
    LET response == list_databases_full(ws, listUp)
        aborted(e, idx) == [ret |-> e, index |-> idx, results |-> NotRun,
                            memory |-> mem, memories |-> texts,
                            recorded |-> {}, calls |-> 0]
    IN IF IsRaised(response) THEN aborted(response, NotRun)
       ELSE LET databases == validate_all(response.v, 1)
            IN IF IsRaised(databases) THEN aborted(databases, NotRun)
               ELSE LET idx == record_db_index(texts, index_key, databases.v, saveUp)
                    IN IF IsRaised(idx.ret) THEN aborted(idx.ret, idx.ret)
                       ELSE LET sch == record_db_schemas(mem, schema_prefix,
                                                         databases.v, memFail)
                            IN [ret |-> None,          \* no return statement
                                index |-> idx.ret,
                                results |-> Value(sch.results),
                                memory |-> sch.memory, memories |-> idx.memories,
                                recorded |-> sch.recorded, calls |-> sch.calls]

Ids(ws) == { ws[i].id : i \in 1..Len(ws) }

SyncInit ==
    /\ dirs = {}
    /\ files = [n \in Namespaces |-> [f \in FileNames |-> NoFile]]
    /\ workspace \in Workspaces(Catalogue, MaxDbs)
    /\ memory = EmptyDict
    /\ memories = {}
    /\ saved = NoSaved
    /\ last = [op |-> "init"]
    /\ tasks = NoTasks
    /\ extracted = None
    /\ pages = NoPages
    /\ server = NoServer

\* setup_tools.sync_databases(ctx, index_key, schema_prefix)
SyncDatabases ==
    \E index_key \in IndexKeys, schema_prefix \in SchemaPrefixes,
       listUp \in BOOLEAN, saveUp \in BOOLEAN, memFail \in SUBSET Ids(workspace) :
        LET r == sync_databases(memory, memories, index_key, schema_prefix,
                                workspace, listUp, saveUp, memFail)
        IN /\ memory' = r.memory
           /\ memories' = r.memories
           /\ last' = [op |-> "sync_databases", index_key |-> index_key,
                        schema_prefix |-> schema_prefix,
                        list_up |-> listUp, save_up |-> saveUp, mem_fail |-> memFail,
                        ret |-> r.ret, index |-> r.index, results |-> r.results,
                        recorded |-> r.recorded, calls |-> r.calls]
           /\ UNCHANGED <<dirs, files, workspace, saved, tasks, extracted, pages, server>>

\* the remote service gains a database
RemoteCreate ==
    \E db \in Catalogue :
        /\ Len(workspace) < MaxDbs
        /\ db.id \notin Ids(workspace)
        /\ workspace' = Append(workspace, db)
        /\ last' = [op |-> "remote"]
        /\ UNCHANGED <<dirs, files, memory, memories, saved, tasks, extracted, pages, server>>

\* the remote service loses its oldest database
RemoteDelete ==
    /\ Len(workspace) > 0
    /\ workspace' = Tail(workspace)
    /\ last' = [op |-> "remote"]
    /\ UNCHANGED <<dirs, files, memory, memories, saved, tasks, extracted, pages, server>>

SyncNext ==
    \/ SyncDatabases
    \/ RemoteCreate
    \/ RemoteDelete

SyncSpec == SyncInit /\ [][SyncNext]_vars

----------------------------------------------------------------------------
(* Properties of the Schema Store and the schema tools                     *)

\* C1: round trip. In every namespace n and for every schema name k,
\* load_schema(k) returns the record most recently saved under k in n
\* (None when nothing was saved): a later save on the same key overwrites,
\* saves on other keys or in other namespaces leave it alone.
C1_RoundTrip ==
    \A n \in Namespaces, k \in Names :
        load_schema(files, n, k) = saved[n][k]

\* a save has just overwritten a different record under its key while
\* another key holds a record of its own
C1_Witness ==
    /\ last.op = "save_schema"
    /\ IsValue(last.pre)
    /\ last.pre # load_schema(files, last.ns, last.name)
    /\ \E n \in Namespaces, k \in Names :
          /\ <<n, k>> # <<last.ns, last.name>>
          /\ IsValue(saved[n][k])
          /\ saved[n][k] # saved[last.ns][last.name]

\* number of discovered databases titled name
Titled(ws, name) ==
    { i \in 1..Len(ws) : Len(ws[i].title) > 0 /\ ws[i].title[1].plain_text = name }

\* C8: cache-miss fallback. get_schema on a name the Store does not hold,
\* with the remote service answering, makes one discovery call and one
\* retrieval per discovered database and then returns the record of the
\* name if a discovered database carries it, None otherwise; it does not
\* fail.
C8_MissFallback ==
    (/\ last.op = "get_schema"
     /\ ~IsValue(last.pre)
     /\ last.list_up /\ last.get_up)
    => /\ last.list_calls = 1
       /\ last.get_calls = Len(workspace)
       /\ ~IsRaised(last.ret)
       /\ IsValue(last.ret) <=> Titled(workspace, last.name) # {}

\* C9: cache-first read. get_schema on a name whose record the Store holds
\* returns exactly that record, makes no remote call, saves nothing and
\* leaves the files and the directories of the Store as they were.
C9_CacheFirst ==
    [][ \A n \in Namespaces, k \in Names :
          (/\ last'.op = "get_schema" /\ last'.ns = n /\ last'.name = k
           /\ IsValue(load_schema(files, n, k)))
          => /\ last'.ret = load_schema(files, n, k)
             /\ last'.list_calls = 0 /\ last'.get_calls = 0 /\ last'.saves = 0
             /\ files' = files /\ dirs' = dirs ]_vars

\* get_schema has answered from the Store
C9_Witness ==
    /\ last.op = "get_schema"
    /\ IsValue(last.pre)
    /\ last.ret = last.pre
    /\ last.list_calls = 0

\* C10: namespace isolation. A save in namespace a changes no file of any
\* other namespace b: every load_schema and list_schemas in b answers as
\* before, also for the name that was saved in a.
C10_NamespaceIsolation ==
    [][ \A a \in Namespaces :
          (last'.op = "save_schema" /\ last'.ns = a)
          => \A b \in Namespaces \ {a} :
                /\ files'[b] = files[b]
                /\ list_schemas(files', b) = list_schemas(files, b)
                /\ \A k \in Names :
                      load_schema(files', b, k) = load_schema(files, b, k) ]_vars

\* "Tasks" was just saved under "work" while "default" holds no "Tasks",
\* and another name is saved in both namespaces with different records
C10_Witness ==
    /\ last.op = "save_schema" /\ last.ns = "work" /\ last.name = "Tasks"
    /\ IsValue(load_schema(files, "work", "Tasks"))
    /\ load_schema(files, "default", "Tasks") = None
    /\ "Tasks" \notin list_schemas(files, "default")
    /\ IsValue(load_schema(files, "default", ""))
    /\ IsValue(load_schema(files, "work", ""))
    /\ load_schema(files, "default", "") # load_schema(files, "work", "")

----------------------------------------------------------------------------
(* Properties of a sync pass (setup_tools.sync_databases)                  *)

Invalid(ws) == { i \in 1..Len(ws) : ~Validates(ws[i]) }

SchemaPhaseRan == last.op = "sync_databases" /\ last.results # NotRun

\* C2: partial-failure containment in the schema phase. When the write of
\* one database fails, the failure is appended to errors, every database
\* whose write does not fail is still recorded, and the phase reports
\* success = (errors is empty).
C2_SchemaPhaseContainment ==
    SchemaPhaseRan =>
        LET res == last.results.v
        IN /\ \A id \in Ids(workspace) \ last.mem_fail : id \in last.recorded
           /\ \A id \in Ids(workspace) \cap last.mem_fail :
                 \E j \in 1..Len(res.errors) : res.errors[j] = ErrorMsg(id)
           /\ res.success = (res.errors = <<>>)

\* C3: validation-failure containment. With a discovery list of N databases
\* of which exactly one does not validate (and every remote call
\* succeeding), the pass is not aborted, records exactly N-1 schemas and
\* reports success = FALSE with exactly one error.
C3_ValidationContainment ==
    (/\ last.op = "sync_databases"
     /\ last.list_up /\ last.save_up /\ last.mem_fail = {}
     /\ Cardinality(Invalid(workspace)) = 1)
    => /\ ~IsRaised(last.ret)
       /\ last.results # NotRun
       /\ Cardinality(last.recorded) = Len(workspace) - 1
       /\ last.results.v.success = FALSE
       /\ Len(last.results.v.errors) = 1

\* C4: a sync pass that completes returns {success, errors} to its caller,
\* and success is false with a non-empty errors list whenever a discovered
\* database was not recorded.
C4_StructuredResult ==
    (last.op = "sync_databases" /\ ~IsRaised(last.ret))
    => /\ IsValue(last.ret)
       /\ DOMAIN last.ret.v = {"success", "errors"}
       /\ (last.recorded # Ids(workspace))
             => (~last.ret.v.success /\ last.ret.v.errors # <<>>)

\* C5: only a failed discovery call aborts a sync pass: when discovery
\* succeeds the pass returns, whatever fails afterwards (validation, the
\* write of the index, the write of a schema record).
C5_OnlyDiscoveryAborts ==
    (last.op = "sync_databases" /\ last.list_up) => ~IsRaised(last.ret)

\* the namespace a sync pass stores schemas under
ActiveNamespace == "default"

\* C6: after a successful sync pass the extracted Schema Record of every
\* discovered database is in the local Schema Store under the database's
\* plain-text name and in the external memory under schema_prefix.id.
C6_StoreAndMemoryConsistent ==
    (SchemaPhaseRan /\ last.results.v.success)
    => \A i \in 1..Len(workspace) :
          LET rec == extract_database_schema(workspace[i]).v
              key == SchemaKey(last.schema_prefix, workspace[i].id)
          IN /\ load_schema(files, ActiveNamespace, rec.title) = Value(rec)
             /\ key \in DOMAIN memory
             /\ memory[key] = rec

\* the external memory holds value under key
MemoryHolds(key, value) ==
    \/ MemoryText(key, value) \in memories
    \/ key \in DOMAIN memory /\ memory[key] = value

\* C7: after the index-build phase the external memory holds under
\* index_key the name -> id mapping of the current discovery snapshot, and
\* the phase returns that mapping: one entry per discovered name, each
\* naming a discovered database of that name.
C7_IndexPersisted ==
    (last.op = "sync_databases" /\ IsValue(last.index))
    => /\ MemoryHolds(last.index_key, last.index.v)
       /\ DOMAIN last.index.v = { plain_text_name(workspace[i]) : i \in 1..Len(workspace) }
       /\ \A name \in DOMAIN last.index.v :
             \E i \in 1..Len(workspace) :
                 /\ plain_text_name(workspace[i]) = name
                 /\ workspace[i].id = last.index.v[name]

----------------------------------------------------------------------------
(* The Schema Store over storage that can fail                             *)

\* what open(path, 'w') followed by an interrupted json.dump leaves behind:
\* the file exists, truncated, holding the beginning of the text
PartialText == [exists |-> TRUE, open |-> TRUE, body |-> EmptyDict, close |-> FALSE]

Faults == {"none", "open", "dump"}

\* the namespace the fault runs work in
FaultNamespaces == {"default"}

\* save_schema with the outcome of its I/O:
\*   "open": open(schema_path, 'w') fails (permission denied)
\*   "dump": the file was opened, json.dump fails part-way (disk full, a
\*           value that is not serializable)
\* either exception is logged and re-raised
save_schema_io(fs, config_name, schema_type, schema, fault) ==
    LET path == get_schema_path(config_name, schema_type)
    IN IF fault = "open" THEN [ret |-> Raised("PermissionError"), files |-> fs]
       ELSE IF fault = "dump"
       THEN [ret |-> Raised("OSError"),
             files |-> [fs EXCEPT ![path.dir][path.file] = PartialText]]
       ELSE save_schema(fs, config_name, schema_type, schema)

\* load_schema with the outcome of its I/O: readFault, open(schema_path)
\* fails on an existing file; the exception is caught
load_schema_io(fs, config_name, schema_type, readFault) ==
    LET path == get_schema_path(config_name, schema_type)
    IN IF fs[path.dir][path.file].exists /\ readFault THEN None
       ELSE load_schema(fs, config_name, schema_type)

SaveSchemaIO ==
    \E config_name \in FaultNamespaces, schema_type \in Names, schema \in Records,
       fault \in Faults :
        LET r == save_schema_io(files, config_name, schema_type, schema, fault)
        IN /\ dirs' = SchemaManager(dirs, config_name)
           /\ files' = r.files
           /\ saved' = IF IsRaised(r.ret) THEN saved
                        ELSE [saved EXCEPT ![config_name][schema_type] = Value(schema)]
           /\ last' = [op |-> "save_schema", ns |-> config_name, name |-> schema_type,
                        pre |-> load_schema(files, config_name, schema_type),
                        fault |-> fault, ret |-> r.ret]
           /\ UNCHANGED <<workspace, memory, memories, tasks, extracted, pages, server>>

LoadSchemaIO ==
    \E config_name \in FaultNamespaces, schema_type \in Names, readFault \in BOOLEAN :
        /\ dirs' = SchemaManager(dirs, config_name)
        /\ last' = [op |-> "load_schema", ns |-> config_name, name |-> schema_type,
                     read_fault |-> readFault,
                     ret |-> load_schema_io(files, config_name, schema_type, readFault)]
        /\ UNCHANGED <<files, workspace, memory, memories, saved, tasks, extracted, pages, server>>

FaultInit ==
    /\ dirs = {}
    /\ files = [n \in Namespaces |-> [f \in FileNames |-> NoFile]]
    /\ workspace = <<>>
    /\ memory = EmptyDict
    /\ memories = {}
    /\ saved = NoSaved
    /\ last = [op |-> "init"]
    /\ tasks = NoTasks
    /\ extracted = None
    /\ pages = NoPages
    /\ server = NoServer

FaultNext ==
    \/ SaveSchemaIO
    \/ LoadSchemaIO

FaultSpec == FaultInit /\ [][FaultNext]_vars

Complete(text) == text.open /\ text.close

\* C11: save is atomic per key. A save that fails raises to its caller and
\* leaves the store as it was: load_schema of the key still returns what it
\* returned before the call, and no file ever holds a partial text.
C11_SaveAtomic ==
    /\ (last.op = "save_schema" /\ last.fault # "none")
         => /\ IsRaised(last.ret)
            /\ load_schema(files, last.ns, last.name) = last.pre
    /\ \A n \in Namespaces, f \in FileNames :
          files[n][f].exists => Complete(files[n][f])

\* C13: load never raises. load_schema of a key never saved returns None,
\* and so does load_schema of a key whose file is corrupt or unreadable.
C13_LoadNeverRaises ==
    last.op = "load_schema"
    => LET text == files[last.ns][FileName(last.name)]
       IN /\ ~IsRaised(last.ret)
          /\ ~text.exists => last.ret = None
          /\ (text.exists /\ ~Complete(text)) => last.ret = None
          /\ (text.exists /\ last.read_fault) => last.ret = None
          /\ (Complete(text) /\ ~last.read_fault) => last.ret = Value(text.body)

\* load_schema has answered None on a file that holds a partial text
C13_Witness ==
    /\ last.op = "load_schema"
    /\ files[last.ns][FileName(last.name)].exists
    /\ ~Complete(files[last.ns][FileName(last.name)])
    /\ ~last.read_fault
    /\ last.ret = None

----------------------------------------------------------------------------
(* Enumerations of the Schema Store                                        *)

\* the schema names saved so far in a namespace
SavedNames(n) == { k \in Names : IsValue(saved[n][k]) }

\* C16: list_schemas of a namespace returns exactly the schema names that
\* have been saved in it, the empty name of an untitled database included.
C16_ListIsSavedNames ==
    \A n \in Namespaces : list_schemas(files, n) = SavedNames(n)

\* C17: a partition is created by the first save in its namespace:
\* list_configs returns exactly the namespaces in which a save was performed,
\* a namespace that was only read is not listed.
C17_LazyPartition ==
    list_configs(dirs) = { n \in Namespaces : SavedNames(n) # {} }

----------------------------------------------------------------------------
(* The database index                                                      *)

\* positions of the databases of ws whose title reads name
Positions(ws, name) ==
    { i \in 1..Len(ws) :
        \/ Len(ws[i].title) = 0 /\ name = ""
        \/ Len(ws[i].title) > 0 /\ ws[i].title[1].plain_text = name }

Latest(S) == CHOOSE i \in S : \A j \in S : j <= i

IndexNames == Names \cup {"Tasks", "Projects", ""}

----------------------------------------------------------------------------
(* The schema extractor on every shape of database object                  *)

TitleOptions == {<<>>, <<Span("Tasks")>>, <<Span("Projects"), Span(" (old)")>>}

FieldNames == {"Name", "Status"}

Descriptors == {PropTitle, PropSelect, PropBare}

PropertyOptions == UNION { [S -> Descriptors] : S \in SUBSET FieldNames }

\* database objects with and without the title and properties keys
ExtractInputs ==
    { [id |-> i] @@ t @@ p :
        i \in {"A1", "B1"},
        t \in {EmptyDict} \cup { [title |-> x] : x \in TitleOptions },
        p \in {EmptyDict} \cup { [properties |-> x] : x \in PropertyOptions } }

ExtractInit ==
    /\ dirs = {}
    /\ files = [n \in Namespaces |-> [f \in FileNames |-> NoFile]]
    /\ workspace \in { <<d>> : d \in ExtractInputs }
    /\ memory = EmptyDict
    /\ memories = {}
    /\ saved = NoSaved
    /\ last = [op |-> "init"]
    /\ tasks = NoTasks
    /\ extracted = None
    /\ pages = NoPages
    /\ server = NoServer

Extract ==
    /\ last' = [op |-> "extract", ret |-> extract_database_schema(workspace[1])]
    /\ UNCHANGED <<dirs, files, workspace, memory, memories, saved, tasks, extracted, pages, server>>

ExtractNext == Extract

ExtractSpec == ExtractInit /\ [][ExtractNext]_vars

\* C14: the extracted record is the reference projection of the database
\* object: its id; the plain text of the first title span, "" for an empty
\* or missing title; one entry per field name of the object (none without a
\* properties key), holding the descriptor's type tag and the value the
\* descriptor stores under that tag, {} when it stores none.
C14_ReferenceProjection ==
    last.op = "extract"
    => LET db == workspace[1]
           fields == IF "properties" \in DOMAIN db THEN DOMAIN db.properties ELSE {}
       IN /\ IsValue(last.ret)
          /\ DOMAIN last.ret.v = {"id", "title", "properties"}
          /\ last.ret.v.id = db.id
          /\ last.ret.v.title = IF "title" \in DOMAIN db /\ db.title # <<>>
                                 THEN Head(db.title).plain_text ELSE ""
          /\ DOMAIN last.ret.v.properties = fields
          /\ \A f \in fields :
                LET d == db.properties[f]
                    e == last.ret.v.properties[f]
                IN /\ DOMAIN e = {"type", "config"}
                   /\ e.type = d.type
                   /\ d.type \in DOMAIN d => e.config = d[d.type]
                   /\ d.type \notin DOMAIN d => e.config = EmptyDict

\* a database object without a title key and with a descriptor that stores
\* nothing under its type tag has been extracted
C14_Witness ==
    /\ last.op = "extract"
    /\ "title" \notin DOMAIN workspace[1]
    /\ "properties" \in DOMAIN workspace[1]
    /\ \E f \in DOMAIN workspace[1].properties :
          /\ workspace[1].properties[f] = PropBare
          /\ last.ret.v.properties[f].config = EmptyDict
    /\ last.ret.v.title = ""

----------------------------------------------------------------------------
(* The remote gateway tools under transient failures of the service        *)

\* the attempts of one remote call whose outcomes are scripted
MaxAttempts == 3

\* outcomes[i]: the service would answer the i-th attempt of the call
Outcomes == [1..MaxAttempts -> BOOLEAN]

\* await client.search(...) / await client.databases.retrieve(...): the call
\* is made once, no retry wraps it
remote_call(outcomes) == [attempts |-> 1, up |-> outcomes[1]]

DatabaseIds == {"A1", "B1", "D1", "X9"}

GatewayInit ==
    /\ dirs = {}
    /\ files = [n \in Namespaces |-> [f \in FileNames |-> NoFile]]
    /\ workspace \in Workspaces(Listed, MaxListed)
    /\ memory = EmptyDict
    /\ memories = {}
    /\ saved = NoSaved
    /\ last = [op |-> "init"]
    /\ tasks = NoTasks
    /\ extracted = None
    /\ pages = NoPages
    /\ server = NoServer

\* notion_tools.list_databases(ctx)
ListDatabases ==
    \E outcomes \in Outcomes :
        LET c == remote_call(outcomes)
        IN /\ last' = [op |-> "list_databases", outcomes |-> outcomes,
                        attempts |-> c.attempts,
                        ret |-> list_databases(workspace, c.up)]
           /\ UNCHANGED <<dirs, files, workspace, memory, memories, saved, tasks, extracted, pages, server>>

\* notion_tools.get_database(ctx, database_id)
GetDatabase ==
    \E database_id \in DatabaseIds, outcomes \in Outcomes :
        LET c == remote_call(outcomes)
        IN /\ last' = [op |-> "get_database", database_id |-> database_id,
                        outcomes |-> outcomes, attempts |-> c.attempts,
                        ret |-> get_database(workspace, database_id, c.up)]
           /\ UNCHANGED <<dirs, files, workspace, memory, memories, saved, tasks, extracted, pages, server>>

GatewayNext ==
    \/ ListDatabases
    \/ GetDatabase

GatewaySpec == GatewayInit /\ [][GatewayNext]_vars

GatewayCall == last.op \in {"list_databases", "get_database"}

\* what the tool returns when the service answers the call
Answered ==
    IF last.op = "list_databases" THEN list_databases(workspace, TRUE)
    ELSE get_database(workspace, last.database_id, TRUE)

\* C18: a remote call is attempted at most MaxAttempts times, and a call
\* that the service would answer on one of these attempts returns that
\* answer to the caller.
C18_RetryUntilAnswered ==
    GatewayCall
    => /\ last.attempts <= MaxAttempts
       /\ (\E i \in 1..MaxAttempts : last.outcomes[i]) => last.ret = Answered

\* C19: a remote call that fails on every attempt ends in an error raised
\* to the caller, never in a normal return value.
C19_TerminalFailureRaises ==
    (GatewayCall /\ \A i \in 1..MaxAttempts : ~last.outcomes[i])
    => last.ret.kind = "raised"

\* C20: when the service answers, list_databases returns a list with one
\* element per database, carrying its id and its title, "" for a database
\* whose title sequence is empty.
C20_AlwaysAList ==
    (last.op = "list_databases" /\ last.outcomes[1])
    => /\ last.ret.kind = "list"
       /\ Len(last.ret.items) = Len(workspace)
       /\ \A i \in 1..Len(workspace) :
             /\ last.ret.items[i].id = workspace[i].id
             /\ last.ret.items[i].title = plain_text_name(workspace[i])

----------------------------------------------------------------------------
(* Concurrent saves: coroutines of one event loop. A coroutine runs until  *)
(* its next await; save_schema contains none.                              *)

TaskNamespaces == {"default"}

\* open(schema_path, 'w'): the file exists and is empty
Truncated == [exists |-> TRUE, open |-> FALSE, body |-> EmptyDict, close |-> FALSE]

\* length of the text json.dump writes for a record
TextSize(schema) ==
    Len(schema.id) + Len(schema.title) + Cardinality(DOMAIN schema.properties)

\* the text of the record written from offset 0 of the handle: over an empty
\* file it is the file; over a longer text the end of that text remains
Overlay(text, schema) ==
    IF text.open /\ TextSize(text.body) > TextSize(schema)
    THEN [exists |-> TRUE, open |-> TRUE, body |-> schema, close |-> FALSE]
    ELSE JsonDump(schema)

\* slip: the coroutine may be suspended before every statement
suspends_at_any(pc) == TRUE

\* the statements at which a coroutine yields to the event loop: the await
\* of the retrieval; open and json.dump are plain calls
suspends_at(pc) == pc = "call_tool"

\* one statement of the coroutine:
\*   call_tool: the awaited retrieval returns, the record is extracted
\*   open:      with open(schema_path, 'w') as f
\*   dump:      json.dump(schema, f, indent=2), and the file is closed
step(fs, task) ==
    LET path == get_schema_path(task.ns, task.name)
    IN IF task.pc = "call_tool"
       THEN [files |-> fs, task |-> [task EXCEPT !.pc = "open"]]
       ELSE IF task.pc = "open"
       THEN [files |-> [fs EXCEPT ![path.dir][path.file] = Truncated],
             task |-> [task EXCEPT !.pc = "dump"]]
       ELSE [files |-> [fs EXCEPT ![path.dir][path.file] =
                                    Overlay(fs[path.dir][path.file], task.rec)],
             task |-> [task EXCEPT !.pc = "done"]]

\* the coroutine runs from where it was resumed to its next suspension
RECURSIVE run(_, _)
run(fs, task) ==
    LET s == step(fs, task)
    IN IF s.task.pc = "done" \/ suspends_at(s.task.pc) THEN s
       ELSE run(s.files, s.task)

InFlight(t) == tasks[t].pc \notin {"idle", "done"}

\* a coroutine starts a save and awaits the retrieval of the database
TaskStart ==
    \E t \in Tasks, config_name \in TaskNamespaces, schema_type \in HostNames,
       schema \in Records :
        /\ tasks[t].pc = "idle"
        /\ tasks' = [tasks EXCEPT ![t] = [pc |-> "call_tool", ns |-> config_name,
                                          name |-> schema_type, rec |-> schema,
                                          raced |-> FALSE]]
        /\ dirs' = SchemaManager(dirs, config_name)
        /\ last' = [op |-> "task_start", task |-> t]
        /\ UNCHANGED <<files, workspace, memory, memories, saved, extracted, pages, server>>

\* the event loop resumes a coroutine, which runs to its next suspension
TaskResume ==
    \E t \in Tasks :
        /\ InFlight(t)
        /\ LET s == run(files, tasks[t])
               finished == s.task.pc = "done"
               raced == \E u \in Tasks \ {t} :
                            /\ InFlight(u)
                            /\ tasks[u].ns = tasks[t].ns
                            /\ tasks[u].name = tasks[t].name
           IN /\ files' = s.files
              /\ tasks' = [tasks EXCEPT ![t] = [s.task EXCEPT !.raced = finished /\ raced]]
              /\ saved' = IF finished
                           THEN [saved EXCEPT ![s.task.ns][s.task.name] = Value(s.task.rec)]
                           ELSE saved
              /\ last' = IF finished
                          THEN [op |-> "task_save", task |-> t, ns |-> s.task.ns,
                                name |-> s.task.name, rec |-> s.task.rec]
                          ELSE [op |-> "task_step", task |-> t]
        /\ UNCHANGED <<dirs, workspace, memory, memories, extracted, pages, server>>

RaceInit ==
    /\ dirs = {}
    /\ files = [n \in Namespaces |-> [f \in FileNames |-> NoFile]]
    /\ workspace = <<>>
    /\ memory = EmptyDict
    /\ memories = {}
    /\ saved = NoSaved
    /\ last = [op |-> "init"]
    /\ tasks = NoTasks
    /\ extracted = None
    /\ pages = NoPages
    /\ server = NoServer

RaceNext ==
    \/ TaskStart
    \/ TaskResume

RaceSpec == RaceInit /\ [][RaceNext]_vars

\* C12: concurrent saves of one key resolve by last-writer-wins. When a
\* save finishes its write, load_schema of the key returns exactly its
\* record; when all saves have finished, every key written holds the
\* complete record of one of its writers, never a corrupt text.
C12_LastWriterWins ==
    /\ last.op = "task_save"
         => load_schema(files, last.ns, last.name) = Value(last.rec)
    /\ (\A t \in Tasks : tasks[t].pc = "done")
         => \A t \in Tasks :
              /\ Complete(files[tasks[t].ns][FileName(tasks[t].name)])
              /\ load_schema(files, tasks[t].ns, tasks[t].name)
                   \in { Value(tasks[u].rec) :
                           u \in { v \in Tasks : tasks[v].name = tasks[t].name } }

\* two saves of one key with different records were in flight together;
\* both have finished and the record of the later one is loaded
C12_Witness ==
    /\ last.op = "task_save"
    /\ \A t \in Tasks : tasks[t].pc = "done"
    /\ \E u \in Tasks \ {last.task} :
          /\ tasks[u].raced
          /\ tasks[u].ns = last.ns
          /\ tasks[u].name = last.name
          /\ tasks[u].rec # last.rec
    /\ load_schema(files, last.ns, last.name) = Value(last.rec)

----------------------------------------------------------------------------
(* The schema extractor as a call: its argument is passed by reference and *)
(* it is a method of a SchemaManager                                       *)

\* slip: the title is taken out of the argument
extract_call_pop(self, database) ==
    [ret |-> extract_database_schema(database),
     database |-> [k \in DOMAIN database \ {"title"} |-> database[k]]]

\* self.extract_database_schema(database): the record returned and the
\* argument as the call leaves it. The body reads database["id"],
\* database.get("title"), database.get("properties", {}).items() and
\* builds new dicts; it reads no attribute of self.
extract_call(self, database) ==
    [ret |-> extract_database_schema(database), database |-> database]

\* the SchemaManager instance: its configuration and its partition
Self(fs, config_name) == [config_name |-> config_name, schema_dir |-> fs[config_name]]

\* a database object shaped after a Schema Record: same id, a one-span
\* title, each descriptor with its type tag and the config under that tag
Rebuild(r) ==
    [id |-> r.id, title |-> <<Span(r.title)>>,
     properties |-> [f \in DOMAIN r.properties |->
                        (r.properties[f].type :> r.properties[f].config)
                        @@ [type |-> r.properties[f].type]]]

ExtractCall ==
    \E config_name \in Namespaces :
        LET c == extract_call(Self(files, config_name), workspace[1])
        IN /\ dirs' = SchemaManager(dirs, config_name)
           /\ workspace' = <<c.database>>
           /\ extracted' = IF extracted = None THEN c.ret ELSE extracted
           /\ last' = [op |-> "extract_call", config_name |-> config_name,
                        before |-> workspace[1], ret |-> c.ret]
           /\ UNCHANGED <<files, memory, memories, saved, tasks, pages, server>>

\* the caller stores the record it has just extracted
StoreExtracted ==
    \E schema_type \in HostNames :
        /\ last.op = "extract_call"
        /\ IsValue(last.ret)
        /\ LET r == save_schema(files, last.config_name, schema_type, last.ret.v)
           IN /\ files' = r.files
              /\ saved' = [saved EXCEPT ![last.config_name][schema_type] = last.ret]
              /\ last' = [op |-> "store_extracted", ns |-> last.config_name,
                           name |-> schema_type, ret |-> r.ret]
        /\ UNCHANGED <<dirs, workspace, memory, memories, tasks, extracted, pages, server>>

\* the caller extracts the database rebuilt from the record just extracted
ReExtract ==
    \E config_name \in Namespaces :
        /\ last.op = "extract_call"
        /\ IsValue(last.ret)
        /\ dirs' = SchemaManager(dirs, config_name)
        /\ last' = [op |-> "re_extract", record |-> last.ret.v,
                     ret |-> extract_call(Self(files, config_name),
                                          Rebuild(last.ret.v)).ret]
        /\ UNCHANGED <<files, workspace, memory, memories, saved, tasks, extracted, pages, server>>

PureInit ==
    /\ dirs = {}
    /\ files = [n \in Namespaces |-> [f \in FileNames |-> NoFile]]
    /\ workspace \in { <<d>> : d \in ExtractInputs }
    /\ memory = EmptyDict
    /\ memories = {}
    /\ saved = NoSaved
    /\ last = [op |-> "init"]
    /\ tasks = NoTasks
    /\ extracted = None
    /\ pages = NoPages
    /\ server = NoServer

PureNext ==
    \/ ExtractCall
    \/ StoreExtracted
    \/ ReExtract

PureSpec == PureInit /\ [][PureNext]_vars

C23_ReExtractIdentical ==
    last.op = "re_extract" => last.ret = Value(last.record)

\* a record with an empty title and an empty config has been re-extracted
C23_Witness ==
    /\ last.op = "re_extract"
    /\ last.record.title = ""
    /\ \E f \in DOMAIN last.record.properties :
          last.record.properties[f].config = EmptyDict
    /\ last.ret = Value(last.record)

----------------------------------------------------------------------------
(* setup_tools.sync_notion_schemas: schemas recorded from the stored index *)

\* a Python str among the values handed to record_db_schemas
Str(x) == [str |-> x]

\* database.id: a Database has the attribute, a str has not
getattr_id(database) ==
    IF "id" \in DOMAIN database THEN Value(database.id) ELSE Raised("AttributeError")

\* memory_client.get_memory(index_key): the index the memory service holds
get_memory(mem, index_key) == mem[index_key]

\* list(index.values()): the identifiers of the index, as strs
RECURSIVE values(_, _)
values(index, keys) ==
    IF keys = {} THEN <<>>
    ELSE LET k == CHOOSE x \in keys : TRUE
         IN <<Str(index[k])>> \o values(index, keys \ {k})

\* record_db_schemas on any list: the first element's database.id is read
\* inside the try; when it raises, the handler formats its message with
\* database.id again, and that exception leaves the function
record_db_schemas_any(mem, schema_prefix, databases, memFail) ==
    IF Len(databases) > 0 /\ IsRaised(getattr_id(databases[1]))
    THEN [ret |-> getattr_id(databases[1]), memory |-> mem, calls |-> 0]
    ELSE LET r == record_db_schemas(mem, schema_prefix, databases, memFail)
         IN [ret |-> Value(r.results), memory |-> r.memory, calls |-> r.calls]

sync_notion_schemas(mem, index_key, schema_prefix, memFail) ==
    LET index == get_memory(mem, index_key)
        db_ids == values(index, DOMAIN index)
    IN record_db_schemas_any(mem, schema_prefix, db_ids, memFail)

IndexIds == {"A1", "B1", "C1"}

\* the indexes the memory service may hold: name -> identifier
Indexes == UNION { [S -> IndexIds] : S \in SUBSET IndexNames }

IndexInit ==
    /\ dirs = {}
    /\ files = [n \in Namespaces |-> [f \in FileNames |-> NoFile]]
    /\ workspace = <<>>
    /\ memory \in { [k \in IndexKeys |-> index] : index \in Indexes }
    /\ memories = {}
    /\ saved = NoSaved
    /\ last = [op |-> "init"]
    /\ tasks = NoTasks
    /\ extracted = None
    /\ pages = NoPages
    /\ server = NoServer

SyncNotionSchemas ==
    \E index_key \in IndexKeys, schema_prefix \in SchemaPrefixes,
       memFail \in SUBSET IndexIds :
        LET r == sync_notion_schemas(memory, index_key, schema_prefix, memFail)
        IN /\ memory' = r.memory
           /\ last' = [op |-> "sync_notion_schemas", index_key |-> index_key,
                        schema_prefix |-> schema_prefix, mem_fail |-> memFail,
                        index |-> get_memory(memory, index_key),
                        ret |-> r.ret, calls |-> r.calls]
           /\ UNCHANGED <<dirs, files, workspace, memories, saved, tasks, extracted, pages, server>>

IndexNext == SyncNotionSchemas

IndexSpec == IndexInit /\ [][IndexNext]_vars

\* C24: sync_notion_schemas records, for every identifier of the stored
\* index, that database's schema under schema_prefix.id, and returns
\* success with no errors when every write succeeds.
C24_SchemasOfIndexRecorded ==
    (last.op = "sync_notion_schemas" /\ last.mem_fail = {})
    => /\ last.ret = Value([success |-> TRUE, errors |-> <<>>])
       /\ \A n \in DOMAIN last.index :
             SchemaKey(last.schema_prefix, last.index[n]) \in DOMAIN memory

----------------------------------------------------------------------------
(* fetch_schemas with retrievals that fail one by one                      *)

\* the loop of fetch_schemas; getFail: the ids whose retrieval the service
\* fails, for which notion_get_database returns the error value
RECURSIVE fetch_loop_each(_, _, _, _, _, _, _, _)
fetch_loop_each(items, i, fs, config_name, schemas, gets, ws, getFail) ==
    IF i > Len(items)
    THEN [ret |-> Value(schemas), files |-> fs, get_calls |-> gets, saves |-> i - 1]
    ELSE LET db_details == get_database(ws, items[i].id, items[i].id \notin getFail)
             schema == extract_database_schema(db_details.d)
         IN IF IsRaised(schema)
            THEN [ret |-> schema, files |-> fs, get_calls |-> gets + 1, saves |-> i - 1]
            ELSE fetch_loop_each(items, i + 1,
                     save_schema(fs, config_name, schema.v.title, schema.v).files,
                     config_name,
                     DictSet(schemas, schema.v.title, schema.v),
                     gets + 1, ws, getFail)

fetch_schemas_each(fs, config_name, ws, listUp, getFail) ==
    LET listed == list_databases(ws, listUp)
        names == db_names(listed)
    IN IF IsRaised(names)
       THEN [ret |-> names, files |-> fs, list_calls |-> 1, get_calls |-> 0, saves |-> 0]
       ELSE LET r == fetch_loop_each(listed.items, 1, fs, config_name, EmptyDict, 0,
                                     ws, getFail)
            IN [ret |-> r.ret, files |-> r.files, list_calls |-> 1,
                get_calls |-> r.get_calls, saves |-> r.saves]

FetchInit ==
    /\ dirs = {}
    /\ files = [n \in Namespaces |-> [f \in FileNames |-> NoFile]]
    /\ workspace \in Workspaces(Catalogue, MaxDbs)
    /\ memory = EmptyDict
    /\ memories = {}
    /\ saved = NoSaved
    /\ last = [op |-> "init"]
    /\ tasks = NoTasks
    /\ extracted = None
    /\ pages = NoPages
    /\ server = NoServer

FetchEach ==
    \E config_name \in Namespaces, listUp \in BOOLEAN,
       getFail \in SUBSET Ids(workspace) :
        LET r == fetch_schemas_each(files, config_name, workspace, listUp, getFail)
        IN /\ dirs' = SchemaManager(dirs, config_name)
           /\ files' = r.files
           /\ last' = [op |-> "fetch_schemas", ns |-> config_name, ret |-> r.ret,
                        list_up |-> listUp, get_fail |-> getFail,
                        get_calls |-> r.get_calls, saves |-> r.saves]
           /\ UNCHANGED <<workspace, memory, memories, saved, tasks, extracted, pages, server>>

FetchNext ==
    \/ FetchEach
    \/ RemoteCreate
    \/ RemoteDelete

FetchSpec == FetchInit /\ [][FetchNext]_vars

\* positions of the discovered databases whose retrieval fails
Failing == { i \in 1..Len(workspace) : workspace[i].id \in last.get_fail }

Earliest(S) == CHOOSE i \in S : \A j \in S : i <= j

\* C25: fetch_schemas has no rollback. When the retrieval of the k-th
\* discovered database fails, the exception reaches the caller, the
\* databases up to k were retrieved and none after, and the schemas of
\* databases 1..k-1 are saved in the Store.
C25_NoRollback ==
    (last.op = "fetch_schemas" /\ last.list_up /\ Failing # {})
    => LET k == Earliest(Failing)
       IN /\ IsRaised(last.ret)
          /\ last.get_calls = k
          /\ last.saves = k - 1
          /\ \A i \in 1..(k - 1) :
                IsValue(load_schema(files, last.ns, plain_text_name(workspace[i])))

\* C26: fetch_schemas keys by title. After a pass over the discovered
\* databases with every call succeeding, the returned mapping and the Store
\* hold, for each distinct title, the schema of the last database with
\* that title.
C26_KeyedByTitle ==
    (last.op = "fetch_schemas" /\ last.list_up /\ Failing = {})
    => /\ IsValue(last.ret)
       /\ DOMAIN last.ret.v = { n \in IndexNames : Positions(workspace, n) # {} }
       /\ \A n \in DOMAIN last.ret.v :
             LET r == extract_database_schema(workspace[Latest(Positions(workspace, n))])
             IN /\ last.ret.v[n] = r.v
                /\ load_schema(files, last.ns, n) = r

----------------------------------------------------------------------------
(* Frame of the Schema Store                                               *)

\* the operations that save: save_schema itself and the passes that call it
Saving == {"save_schema", "fetch_schemas", "get_schema"}

\* C27: saved keys are never removed. Across every operation a key that
\* was loadable stays loadable and every listed name stays listed; the
\* record under a key changes only in an operation that saves, in that
\* namespace, and for a direct save only under the key it was given.
C27_KeysOnlyGrow ==
    [][ \A n \in Namespaces :
          /\ list_schemas(files, n) \subseteq list_schemas(files', n)
          /\ \A k \in Names :
                /\ IsValue(load_schema(files, n, k)) => IsValue(load_schema(files', n, k))
                /\ load_schema(files', n, k) # load_schema(files, n, k)
                     => /\ last'.op \in Saving
                        /\ last'.ns = n
                        /\ last'.op = "save_schema" => last'.name = k ]_vars

\* a pass has run over a namespace that holds saved keys, with a database in
\* the workspace, and the keys are still there
C27_Witness ==
    /\ last.op = "fetch_schemas"
    /\ Len(workspace) > 0
    /\ IsValue(load_schema(files, last.ns, "Tasks"))
    /\ IsValue(load_schema(files, last.ns, ""))
    /\ list_schemas(files, last.ns) # {}

----------------------------------------------------------------------------
(* Page tools: notion_tools.create_page / update_page / get_page, over the *)
(* pages of the remote service                                             *)

\* Optional[...] arguments: None, or Value(v)
Truthy_opt(x) == IsValue(x) /\ x.v

\* the property values a caller hands to a page tool
PropertyArgs == {None, EmptyDict, [Name |-> "Test Page"]}

\* Python truth value of a properties argument
Truthy_dict(d) == d # None /\ DOMAIN d # {}

ChildrenArgs == {None, Value(<<"paragraph">>)}

Truthy_list(x) == IsValue(x) /\ Len(x.v) > 0

ArchivedArgs == {None, Value(TRUE), Value(FALSE)}

Request(api, args) == [api |-> api, args |-> args]

FreePages(ps) == { p \in PageIds : ~ps[p].exists }

\* client.pages.create(**page_data) as the service answers it: a page is
\* created under an existing database
pages_create(ps, ws, page_data, up) ==
    IF up /\ page_data.parent.database_id \in Ids(ws) /\ FreePages(ps) # {}
    THEN LET id == CHOOSE p \in FreePages(ps) : TRUE
             page == [exists |-> TRUE, object |-> "page", id |-> id,
                      parent |-> page_data.parent,
                      properties |-> IF "properties" \in DOMAIN page_data
                                     THEN page_data.properties ELSE EmptyDict,
                      archived |-> FALSE]
         IN [ret |-> Value(page), pages |-> [ps EXCEPT ![id] = page]]
    ELSE [ret |-> Raised("APIResponseError"), pages |-> ps]

\* client.pages.update(page_id=..., **update_data) as the service answers it
pages_update(ps, page_id, update_data, up) ==
    IF up /\ page_id \in PageIds /\ ps[page_id].exists
    THEN LET page == [ps[page_id] EXCEPT
                        !.properties = IF "properties" \in DOMAIN update_data
                                       THEN update_data.properties ELSE @,
                        !.archived = IF "archived" \in DOMAIN update_data
                                     THEN update_data.archived ELSE @]
         IN [ret |-> Value(page), pages |-> [ps EXCEPT ![page_id] = page]]
    ELSE [ret |-> Raised("APIResponseError"), pages |-> ps]

\* client.pages.retrieve(page_id=...)
pages_retrieve(ps, page_id, up) ==
    IF up /\ page_id \in PageIds /\ ps[page_id].exists
    THEN Value(ps[page_id]) ELSE Raised("APIResponseError")

\* slip: the failure is raised again instead of being returned
Returned_raise(r, message) ==
    IF IsRaised(r) THEN [kind |-> "raised", exc |-> r.exc]
    ELSE [kind |-> "response", d |-> r.v]

\* the value a tool returns for what happened inside its try block
Returned(r, message) ==
    IF IsRaised(r) THEN [kind |-> "errdict", d |-> ErrorDict(message)]
    ELSE [kind |-> "response", d |-> r.v]

\* the names bound in create_page when line 223 runs: the parameters and
\* client; page_data is assigned on the next line
Bound223 == {"ctx", "database_id", "properties", "children", "client"}

\* reading a local name
ReadLocal(bound, name) ==
    IF name \in bound THEN None ELSE Raised("UnboundLocalError")

create_page(ps, ws, database_id, properties, children, up) ==
    LET logged == ReadLocal(Bound223, "page_data")       \* f"Page data: {page_data}"
        page_data == [parent |-> [database_id |-> database_id]]
                     @@ (IF Truthy_dict(properties)
                         THEN [properties |-> properties] ELSE EmptyDict)
                     @@ (IF Truthy_list(children)
                         THEN [children |-> children.v] ELSE EmptyDict)
        r == pages_create(ps, ws, page_data, up)
    IN IF IsRaised(logged)
       THEN [ret |-> Returned(logged, "Failed to create page"),
             pages |-> ps, requests |-> <<>>]
       ELSE [ret |-> Returned(r.ret, "Failed to create page"),
             pages |-> r.pages, requests |-> <<Request("pages.create", page_data)>>]

\* slip: archived is forwarded whenever it is given
update_page_given(ps, page_id, properties, archived, up) ==
    LET update_data == (IF properties # None
                        THEN [properties |-> properties] ELSE EmptyDict)
                       @@ (IF IsValue(archived)
                           THEN [archived |-> archived.v] ELSE EmptyDict)
        r == pages_update(ps, page_id, update_data, up)
    IN [ret |-> Returned(r.ret, "Failed to update page"),
        pages |-> r.pages, requests |-> <<Request("pages.update", update_data)>>]

update_page(ps, page_id, properties, archived, up) ==
    LET update_data == (IF properties # None
                        THEN [properties |-> properties] ELSE EmptyDict)
                       @@ (IF Truthy_opt(archived)
                           THEN [archived |-> archived.v] ELSE EmptyDict)
        r == pages_update(ps, page_id, update_data, up)
    IN [ret |-> Returned(r.ret, "Failed to update page"),
        pages |-> r.pages, requests |-> <<Request("pages.update", update_data)>>]

get_page(ps, page_id, up) ==
    Returned(pages_retrieve(ps, page_id, up), "Failed to get page")

PageArgs == PageIds \cup {"X9"}

\* the database identifiers handed to the page and database tools
ToolDatabaseIds == {"A1", "X9"}

\* notion_tools.create_page(ctx, database_id, properties, children)
CreatePage ==
    \E database_id \in ToolDatabaseIds, properties \in PropertyArgs,
       children \in ChildrenArgs, up \in BOOLEAN :
        LET r == create_page(pages, workspace, database_id, properties, children, up)
        IN /\ pages' = r.pages
           /\ last' = [op |-> "create_page", database_id |-> database_id,
                        properties |-> properties, children |-> children,
                        up |-> up, requests |-> r.requests, ret |-> r.ret]
           /\ UNCHANGED <<dirs, files, workspace, memory, memories, saved, tasks,
                          extracted, server>>

\* notion_tools.update_page(ctx, page_id, properties, archived)
UpdatePage ==
    \E page_id \in PageArgs, properties \in PropertyArgs,
       archived \in ArchivedArgs, up \in BOOLEAN :
        LET r == update_page(pages, page_id, properties, archived, up)
        IN /\ pages' = r.pages
           /\ last' = [op |-> "update_page", page_id |-> page_id,
                        properties |-> properties, archived |-> archived,
                        was_archived |-> page_id \in PageIds /\ pages[page_id].exists
                                         /\ pages[page_id].archived,
                        up |-> up, requests |-> r.requests, ret |-> r.ret]
           /\ UNCHANGED <<dirs, files, workspace, memory, memories, saved, tasks,
                          extracted, server>>

\* notion_tools.get_page(ctx, page_id)
GetPage ==
    \E page_id \in PageArgs, up \in BOOLEAN :
        /\ last' = [op |-> "get_page", page_id |-> page_id, up |-> up,
                     ret |-> get_page(pages, page_id, up)]
        /\ UNCHANGED <<dirs, files, workspace, memory, memories, saved, tasks,
                       extracted, pages, server>>

\* another client of the service creates a page in a database
RemoteNewPage ==
    \E database_id \in Ids(workspace), properties \in PropertyArgs \ {None} :
        LET r == pages_create(pages, workspace,
                              [parent |-> [database_id |-> database_id],
                               properties |-> properties], TRUE)
        IN /\ FreePages(pages) # {}
           /\ pages' = r.pages
           /\ last' = [op |-> "remote"]
           /\ UNCHANGED <<dirs, files, workspace, memory, memories, saved, tasks,
                          extracted, server>>

----------------------------------------------------------------------------
(* The other tools of notion_tools, each one try block around one remote   *)
(* call                                                                    *)

NewDatabaseId == "N1"

\* the descriptor the service keeps for a property schema: the schema with
\* its id, name and type tag
Describe(name, schema) ==
    [id |-> name, name |-> name, type |-> CHOOSE t \in DOMAIN schema : TRUE] @@ schema

DescribeAll(properties) ==
    [f \in DOMAIN properties |-> Describe(f, properties[f])]

Merge(d, e) == [k \in DOMAIN d \cup DOMAIN e |-> IF k \in DOMAIN e THEN e[k] ELSE d[k]]

ListOf(results) == [object |-> "list", results |-> results]

\* client.databases.query(**query_params): the pages of the database
databases_query(ps, ws, query_params, up) ==
    IF up /\ query_params.database_id \in Ids(ws)
    THEN Value(ListOf({ p \in PageIds :
                          /\ ps[p].exists
                          /\ ps[p].parent.database_id = query_params.database_id }))
    ELSE Raised("APIResponseError")

\* client.databases.create(**payload): the database is created under an
\* existing parent page
databases_create(ws, payload, up) ==
    IF up /\ IsValue(payload.parent.page_id) /\ NewDatabaseId \notin Ids(ws)
    THEN LET db == [object |-> "database", id |-> NewDatabaseId,
                    created_time |-> "2024-02-01",
                    title |-> <<Span(payload.title[1].text.content)>>,
                    properties |-> DescribeAll(payload.properties)]
         IN [ret |-> Value(db), workspace |-> Append(ws, db)]
    ELSE [ret |-> Raised("APIResponseError"), workspace |-> ws]

Position(ws, id) == CHOOSE i \in 1..Len(ws) : ws[i].id = id

\* client.databases.update(database_id=..., properties=...): the given
\* property schemas replace or extend those of the database
databases_update(ws, database_id, properties, up) ==
    IF up /\ database_id \in Ids(ws)
    THEN LET i == Position(ws, database_id)
             db == IF properties = None THEN ws[i]
                   ELSE [ws[i] EXCEPT !.properties = Merge(@, DescribeAll(properties))]
         IN [ret |-> Value(db), workspace |-> [ws EXCEPT ![i] = db]]
    ELSE [ret |-> Raised("APIResponseError"), workspace |-> ws]

\* client.blocks.children.list(block_id=..., ...): a page is a block
blocks_children_list(ps, block_id, up) ==
    IF up /\ block_id \in PageIds /\ ps[block_id].exists
    THEN Value(ListOf({})) ELSE Raised("APIResponseError")

\* client.search(**search_params): the databases and pages of the service
client_search(ps, ws, search_params, up) ==
    IF up THEN Value(ListOf(Ids(ws) \cup { p \in PageIds : ps[p].exists }))
    ELSE Raised("APIResponseError")

FilterArgs == {None, [property |-> "Due date"]}

CursorArgs == {None, Value("c1")}

Given(name, x) == IF x = None THEN EmptyDict ELSE (name :> x)

GivenValue(name, x) == IF IsValue(x) THEN (name :> x.v) ELSE EmptyDict

query_database(ps, ws, database_id, filter, start_cursor, up) ==
    LET query_params == [database_id |-> database_id, page_size |-> 100]
                        @@ (IF Truthy_dict(filter) THEN Given("filter", filter)
                            ELSE EmptyDict)
                        @@ GivenValue("start_cursor", start_cursor)
    IN [ret |-> Returned(databases_query(ps, ws, query_params, up),
                         "Failed to query database"),
        requests |-> <<Request("databases.query", query_params)>>]

SchemaArgs == {None, [Status |-> [select |-> EmptyDict]]}

TitleArgs == {"New Database"}

\* parent_id: NOTION_ROOT_PAGE_ID of the environment, None when it is unset
ParentArgs == {None, Value("root")}

create_database(ws, parent_id, title, properties, up) ==
    LET base == [Name |-> [title |-> EmptyDict]]
        payload == [parent |-> [type |-> "page_id",
                                page_id |-> parent_id],
                    title |-> <<[type |-> "text", text |-> [content |-> title]]>>,
                    properties |-> IF Truthy_dict(properties)
                                   THEN Merge(base, properties) ELSE base]
        r == databases_create(ws, payload, up)
    IN [ret |-> Returned(r.ret, "Failed to create database"),
        workspace |-> r.workspace,
        requests |-> <<Request("databases.create", payload)>>]

\* the properties argument, also wrapped once more under "properties"
NestedArgs == SchemaArgs \cup {[properties |-> [Status |-> [select |-> EmptyDict]]]}

update_database(ws, database_id, properties, up) ==
    LET inner == IF properties # None /\ "properties" \in DOMAIN properties
                 THEN properties.properties ELSE properties
        r == databases_update(ws, database_id, inner, up)
    IN [ret |-> Returned(r.ret, "Failed to update database"),
        workspace |-> r.workspace,
        requests |-> <<Request("databases.update",
                               [database_id |-> database_id, properties |-> inner])>>]

get_block_children(ps, block_id, start_cursor, up) ==
    [ret |-> Returned(blocks_children_list(ps, block_id, up),
                      "Failed to get block children"),
     requests |-> <<Request("blocks.children.list",
                            [block_id |-> block_id, page_size |-> 100,
                             start_cursor |-> start_cursor])>>]

search(ps, ws, query, filter, start_cursor, up) ==
    LET search_params == [query |-> query, page_size |-> 100]
                         @@ Given("filter", filter)
                         @@ GivenValue("start_cursor", start_cursor)
    IN [ret |-> Returned(client_search(ps, ws, search_params, up), "Failed to search"),
        requests |-> <<Request("search", search_params)>>]

\* notion_tools.query_database(ctx, database_id, filter, sorts, start_cursor)
QueryDatabase ==
    \E database_id \in ToolDatabaseIds, filter \in FilterArgs,
       start_cursor \in CursorArgs, up \in BOOLEAN :
        LET r == query_database(pages, workspace, database_id, filter, start_cursor, up)
        IN /\ last' = [op |-> "query_database", up |-> up,
                        requests |-> r.requests, ret |-> r.ret]
           /\ UNCHANGED <<dirs, files, workspace, memory, memories, saved, tasks,
                          extracted, pages, server>>

\* notion_tools.create_database(ctx, parent_id, title, properties)
CreateDatabase ==
    \E parent_id \in ParentArgs, title \in TitleArgs, properties \in SchemaArgs,
       up \in BOOLEAN :
        LET r == create_database(workspace, parent_id, title, properties, up)
        IN /\ workspace' = r.workspace
           /\ last' = [op |-> "create_database", up |-> up,
                        requests |-> r.requests, ret |-> r.ret]
           /\ UNCHANGED <<dirs, files, memory, memories, saved, tasks,
                          extracted, pages, server>>

\* notion_tools.update_database(ctx, database_id, properties)
UpdateDatabase ==
    \E database_id \in ToolDatabaseIds, properties \in NestedArgs, up \in BOOLEAN :
        LET r == update_database(workspace, database_id, properties, up)
        IN /\ workspace' = r.workspace
           /\ last' = [op |-> "update_database", up |-> up,
                        requests |-> r.requests, ret |-> r.ret]
           /\ UNCHANGED <<dirs, files, memory, memories, saved, tasks,
                          extracted, pages, server>>

\* notion_tools.get_block_children(ctx, block_id, start_cursor, page_size)
GetBlockChildren ==
    \E block_id \in PageArgs, start_cursor \in CursorArgs, up \in BOOLEAN :
        LET r == get_block_children(pages, block_id, start_cursor, up)
        IN /\ last' = [op |-> "get_block_children", up |-> up,
                        requests |-> r.requests, ret |-> r.ret]
           /\ UNCHANGED <<dirs, files, workspace, memory, memories, saved, tasks,
                          extracted, pages, server>>

\* notion_tools.search(ctx, query, filter, sort, start_cursor, page_size)
Search ==
    \E query \in {""}, filter \in FilterArgs,
       start_cursor \in CursorArgs, up \in BOOLEAN :
        LET r == search(pages, workspace, query, filter, start_cursor, up)
        IN /\ last' = [op |-> "search", up |-> up,
                        requests |-> r.requests, ret |-> r.ret]
           /\ UNCHANGED <<dirs, files, workspace, memory, memories, saved, tasks,
                          extracted, pages, server>>

ToolsInit ==
    /\ dirs = {}
    /\ files = [n \in Namespaces |-> [f \in FileNames |-> NoFile]]
    /\ workspace \in {<<>>, <<DbTasks>>}
    /\ memory = EmptyDict
    /\ memories = {}
    /\ saved = NoSaved
    /\ last = [op |-> "init"]
    /\ tasks = NoTasks
    /\ extracted = None
    /\ pages = NoPages
    /\ server = NoServer

ToolsNext ==
    \/ ListDatabases
    \/ GetDatabase
    \/ QueryDatabase
    \/ CreateDatabase
    \/ UpdateDatabase
    \/ GetPage
    \/ CreatePage
    \/ UpdatePage
    \/ GetBlockChildren
    \/ Search
    \/ RemoteNewPage

ToolsSpec == ToolsInit /\ [][ToolsNext]_vars

ToolOps ==
    {"list_databases", "get_database", "query_database", "create_database",
     "update_database", "get_page", "create_page", "update_page",
     "get_block_children", "search"}

\* the database is one the service holds and accepts pages for
Accepts == last.up /\ last.database_id \in Ids(workspace)

\* C21: create_page, when the service accepts the request, issues exactly
\* one page-create request with parent = database_id, the given properties
\* and the given children, and returns the created page, which has an id.
C21_CreatesOnePage ==
    (last.op = "create_page" /\ Accepts /\ Truthy_dict(last.properties))
    => /\ Len(last.requests) = 1
       /\ last.requests[1].api = "pages.create"
       /\ last.requests[1].args.parent.database_id = last.database_id
       /\ last.requests[1].args.properties = last.properties
       /\ Truthy_list(last.children)
            => last.requests[1].args.children = last.children.v
       /\ last.ret.kind = "response"
       /\ "id" \in DOMAIN last.ret.d

\* C28: no tool of notion_tools raises: each returns the response of the
\* service, or the error value {success: false, error: true, message,
\* status: 400}.
C28_ToolsNeverRaise ==
    last.op \in ToolOps
    => /\ last.ret.kind \in {"response", "list", "db", "errdict"}
       /\ last.ret.kind = "errdict"
            => /\ DOMAIN last.ret.d = {"success", "error", "message", "status"}
               /\ last.ret.d.success = FALSE
               /\ last.ret.d.error = TRUE
               /\ last.ret.d.status = 400

\* a tool has returned the error value after a failure of the service
C28_Witness ==
    /\ last.op \in ToolOps \ {"list_databases", "get_database"}
    /\ ~last.up
    /\ last.ret.kind = "errdict"

\* C30: update_page forwards properties whenever it is not None and
\* archived exactly when it is true; a page that is archived stays archived
\* across every update_page.
C30_ArchiveOnly ==
    last.op = "update_page"
    => /\ Len(last.requests) = 1
       /\ "properties" \in DOMAIN last.requests[1].args <=> last.properties # None
       /\ last.properties # None
            => last.requests[1].args.properties = last.properties
       /\ "archived" \in DOMAIN last.requests[1].args <=> last.archived = Value(TRUE)
       /\ last.was_archived => pages[last.page_id].archived

\* update_page was called with archived = False on an archived page, the
\* service accepted the request, and the page is still archived
C30_Witness ==
    /\ last.op = "update_page"
    /\ last.archived = Value(FALSE)
    /\ last.was_archived
    /\ last.ret.kind = "response"
    /\ last.requests[1].args = [properties |-> last.properties]
    /\ pages[last.page_id].archived

----------------------------------------------------------------------------
(* Server lifespan: main.mcp_lifespan, the tasks it tracks and the Notion  *)
(* client it owns                                                          *)

TrackedIds == {"t1", "t2"}

\* a tracked asyncio task: its state and whether cancel() was called on it
Untracked == [state |-> "none", cancel_requested |-> FALSE]

NoTracked == [t \in TrackedIds |-> Untracked]

\* tasks = set(): the tasks in the set
InSet(ts) == { t \in TrackedIds : ts[t].state # "none" }

\* task.done()
done(task) == task.state \in {"done", "failed", "cancelled"}

\* task.cancel()
cancel(task) == [task EXCEPT !.cancel_requested = TRUE]

\* for task in tasks: if not task.done(): task.cancel()
cancel_pending(ts) ==
    [t \in TrackedIds |-> IF t \in InSet(ts) /\ ~done(ts[t]) THEN cancel(ts[t]) ELSE ts[t]]

Waiting == [kind |-> "waiting"]

\* slip: gather without return_exceptions, the first exception or
\* cancellation of a task is raised to the caller
gather_first_exception(ts) ==
    IF \E t \in InSet(ts) : ts[t].state = "failed" THEN Raised("Exception")
    ELSE IF \E t \in InSet(ts) : ts[t].state = "cancelled" THEN Raised("CancelledError")
    ELSE IF \E t \in InSet(ts) : ~done(ts[t]) THEN Waiting
    ELSE Value([t \in InSet(ts) |-> ts[t].state])

\* asyncio.gather(*tasks, return_exceptions=True): waits for every task and
\* returns their results, exceptions and cancellations as values
gather(ts) ==
    IF \E t \in InSet(ts) : ~done(ts[t]) THEN Waiting
    ELSE Value([t \in InSet(ts) |-> ts[t].state])

\* the outcomes a running task can end with: a result or an exception, and
\* once cancel() was called on it also a cancellation
Endings(task) ==
    {"done", "failed"} \cup (IF task.cancel_requested THEN {"cancelled"} ELSE {})

\* mcp_lifespan up to its yield: the client is created, the task set is
\* attached to server.state, which the server object may not have
Enter ==
    /\ server.phase = "off"
    /\ \E has_state \in BOOLEAN :
         server' = IF has_state
                   THEN [phase |-> "serving", tasks |-> NoTracked, closes |-> 0,
                         cause |-> "none", raised |-> None]
                   ELSE [phase |-> "failed", tasks |-> NoTracked, closes |-> 0,
                         cause |-> "none", raised |-> Raised("AttributeError")]
    /\ UNCHANGED <<dirs, files, workspace, memory, memories, saved, last, tasks,
                   extracted, pages>>

\* a handler adds a running task to server.state.tasks
Track ==
    /\ server.phase = "serving"
    /\ \E t \in TrackedIds :
         /\ server.tasks[t].state = "none"
         /\ server' = [server EXCEPT !.tasks[t].state = "pending"]
    /\ UNCHANGED <<dirs, files, workspace, memory, memories, saved, last, tasks,
                   extracted, pages>>

\* a tracked task runs to its end
TrackedEnds ==
    /\ server.phase \in {"serving", "gathering"}
    /\ \E t \in TrackedIds :
         /\ server.tasks[t].state = "pending"
         /\ \E e \in Endings(server.tasks[t]) :
              server' = [server EXCEPT !.tasks[t].state = e]
    /\ UNCHANGED <<dirs, files, workspace, memory, memories, saved, last, tasks,
                   extracted, pages>>

\* the body of the context ends, normally or with an exception thrown in at
\* the yield: finally cancels the pending tasks, then awaits gather when the
\* set is not empty, else goes on to notion_client.aclose()
LifespanExit ==
    /\ server.phase = "serving"
    /\ \E cause \in {"normal", "error"} :
         LET ts == cancel_pending(server.tasks)
         IN server' = IF InSet(ts) # {}
                      THEN [server EXCEPT !.phase = "gathering", !.tasks = ts,
                                          !.cause = cause]
                      ELSE [server EXCEPT !.phase = "closing", !.tasks = ts,
                                          !.cause = cause, !.closes = @ + 1]
    /\ UNCHANGED <<dirs, files, workspace, memory, memories, saved, last, tasks,
                   extracted, pages>>

\* await asyncio.gather(...) returns or raises; after it returns
\* notion_client.aclose() is called
GatherReturns ==
    /\ server.phase = "gathering"
    /\ LET r == gather(server.tasks)
       IN /\ r # Waiting
          /\ server' = IF IsRaised(r)
                       THEN [server EXCEPT !.phase = "exited", !.raised = r]
                       ELSE [server EXCEPT !.phase = "closing", !.closes = @ + 1]
    /\ UNCHANGED <<dirs, files, workspace, memory, memories, saved, last, tasks,
                   extracted, pages>>

\* await notion_client.aclose() returns and the context manager is left,
\* raising the exception that ended the body, if any
CloseReturns ==
    /\ server.phase = "closing"
    /\ server' = [server EXCEPT !.phase = "exited",
                                !.raised = IF server.cause = "error"
                                           THEN Raised("Exception") ELSE None]
    /\ UNCHANGED <<dirs, files, workspace, memory, memories, saved, last, tasks,
                   extracted, pages>>

\* main.cleanup() cancels the task that runs the lifespan while it waits in
\* gather: CancelledError leaves the finally block
Interrupt ==
    /\ server.phase = "gathering"
    /\ server' = [server EXCEPT !.phase = "interrupted",
                                !.raised = Raised("CancelledError")]
    /\ UNCHANGED <<dirs, files, workspace, memory, memories, saved, last, tasks,
                   extracted, pages>>

LifespanInit ==
    /\ dirs = {}
    /\ files = [n \in Namespaces |-> [f \in FileNames |-> NoFile]]
    /\ workspace = <<>>
    /\ memory = EmptyDict
    /\ memories = {}
    /\ saved = NoSaved
    /\ last = [op |-> "init"]
    /\ tasks = NoTasks
    /\ extracted = None
    /\ pages = NoPages
    /\ server = NoServer

LifespanNext ==
    \/ Enter
    \/ Track
    \/ TrackedEnds
    \/ LifespanExit
    \/ GatherReturns
    \/ CloseReturns
    \/ Interrupt

LifespanSpec == LifespanInit /\ [][LifespanNext]_vars

\* the cleanup of the lifespan has started
Leaving == server.phase \in {"gathering", "closing", "exited"}

====
